---- MODULE Spec2Model ----
(***************************************************************************)
(* Model of day-01_finance_tracker.py: the FinanceTracker ledger, its JSON *)
(* persistence (finances.json) and the menu loop of main().                *)
(*                                                                         *)
(* Python values are modelled as follows.                                  *)
(*   float   a record [k, v]: k = "fin" with the value v (the amounts used *)
(*           here are small whole numbers, which binary64 holds and adds   *)
(*           exactly), k = "nan", or k = "inf" with v the sign.            *)
(*   int     an integer; str: a string; dict: a function of its keys;      *)
(*   list    a sequence.                                                   *)
(* self.transactions carries its Python type beside its value, because     *)
(* json.load may return something that is not a list.                      *)
(*                                                                         *)
(* A text (the content of finances.json, a line typed at a prompt) is a    *)
(* sequence of tokens: punctuation and digits are single characters; the   *)
(* content of a string literal and the words NaN, Infinity, -Infinity,     *)
(* null, nan, inf are one token each.  Insignificant JSON whitespace       *)
(* (indent=2) is left out.                                                 *)
(*                                                                         *)
(* Left out: the layout of the printed table and menus, the count in the   *)
(* "Loaded N transactions" message, str.strip() of the answers (a          *)
(* description stands for the stripped answer), exponents and fractions    *)
(* other than .0 in numbers, and elements of a stored array that are not   *)
(* objects.  Binary rounding of fractional amounts is not modelled: every  *)
(* finite amount here is a whole number.                                   *)
(***************************************************************************)
EXTENDS Integers, Sequences, FiniteSets, TLC

VARIABLES pc, choice, transactions, file, out, lastSave

vars == <<pc, choice, transactions, file, out, lastSave>>

\* Largest number of transactions a ledger is grown to.
MaxTx == 2

---------------------------------------------------------------------------
\* float

F(n) == [k |-> "fin", v |-> n]
NaN == [k |-> "nan", v |-> 0]
PInf == [k |-> "inf", v |-> 1]
NInf == [k |-> "inf", v |-> -1]

\* -x
FNeg(x) == IF x.k = "nan" THEN NaN ELSE [k |-> x.k, v |-> -x.v]

\* abs(x)
FAbs(x) == IF x.k = "nan" THEN NaN ELSE [k |-> x.k, v |-> IF x.v < 0 THEN -x.v ELSE x.v]

\* x + y
FAdd(x, y) ==
    CASE x.k = "nan" \/ y.k = "nan" -> NaN
      [] x.k = "inf" /\ y.k = "inf" -> IF x.v = y.v THEN x ELSE NaN
      [] x.k = "inf" -> x
      [] y.k = "inf" -> y
      [] OTHER -> F(x.v + y.v)

\* x - y
FSub(x, y) == FAdd(x, FNeg(y))

\* x < y; every comparison with nan is False
FLt(x, y) ==
    CASE x.k = "nan" \/ y.k = "nan" -> FALSE
      [] x.k = "inf" /\ y.k = "inf" -> x.v < y.v
      [] x.k = "inf" -> x.v < 0
      [] y.k = "inf" -> y.v > 0
      [] OTHER -> x.v < y.v

\* x > y
FGt(x, y) == FLt(y, x)

\* x == y; nan equals nothing, itself included
FEq(x, y) == x.k # "nan" /\ y.k # "nan" /\ x = y

\* x <= y and x >= y
FLe(x, y) == FLt(x, y) \/ FEq(x, y)
FGe(x, y) == FLe(y, x)

---------------------------------------------------------------------------
\* texts

Digits == <<"0", "1", "2", "3", "4", "5", "6", "7", "8", "9">>

IsDigit(c) == \E d \in 1..10 : Digits[d] = c

DigitVal(c) == (CHOOSE d \in 1..10 : Digits[d] = c) - 1

\* The token at place i of text s, "" past its end.
Tok(s, i) == IF i >= 1 /\ i <= Len(s) THEN s[i] ELSE ""

\* The first place from i on that holds no digit.
RECURSIVE DigitsEnd(_, _)
DigitsEnd(s, i) == IF IsDigit(Tok(s, i)) THEN DigitsEnd(s, i + 1) ELSE i

\* The number the digits s[i..j-1] write.
RECURSIVE DigitsVal(_, _, _)
DigitsVal(s, i, j) ==
    IF j <= i THEN 0 ELSE 10 * DigitsVal(s, i, j - 1) + DigitVal(s[j - 1])

\* The decimal digits of n >= 0.
RECURSIVE NatDigits(_)
NatDigits(n) ==
    IF n < 10 THEN <<Digits[n + 1]>> ELSE NatDigits(n \div 10) \o <<Digits[(n % 10) + 1]>>

\* int.__repr__, as json.dump writes an int
IntRepr(n) == IF n < 0 THEN <<"-">> \o NatDigits(-n) ELSE NatDigits(n)

\* FloatRepr with the sign of a finite value lost.
FloatReprNoSign(x) ==
    CASE x.k = "nan" -> <<"NaN">>
      [] x.k = "inf" -> IF x.v > 0 THEN <<"Infinity">> ELSE <<"-Infinity">>
      [] OTHER -> NatDigits(IF x.v < 0 THEN -x.v ELSE x.v) \o <<".", "0">>

\* float.__repr__ with json's names for the non-finite values (allow_nan)
FloatRepr(x) ==
    CASE x.k = "nan" -> <<"NaN">>
      [] x.k = "inf" -> IF x.v > 0 THEN <<"Infinity">> ELSE <<"-Infinity">>
      [] OTHER -> IntRepr(x.v) \o <<".", "0">>

\* str(float), as an f-string writes it
FloatStr(x) ==
    CASE x.k = "nan" -> <<"nan">>
      [] x.k = "inf" -> IF x.v > 0 THEN <<"inf">> ELSE <<"-inf">>
      [] OTHER -> IntRepr(x.v) \o <<".", "0">>

\* Whether every fraction digit s[i..j-1] is 0 (the floats of the model are whole).
WholeFraction(s, i, j) == \A p \in i..(j - 1) : s[p] = "0"

\* float(text): [ok, v]; ok = FALSE is ValueError.
\* Accepts [sign] digits [. digits], [sign] nan, [sign] inf.
ParseFloat(s) ==
    LET neg == Tok(s, 1) = "-"
        b == IF neg \/ Tok(s, 1) = "+" THEN 2 ELSE 1
        e == DigitsEnd(s, b)
        fe == DigitsEnd(s, e + 1)
        sgn(x) == IF neg THEN FNeg(x) ELSE x
        bad == [ok |-> FALSE, v |-> NaN]
    IN  CASE Tok(s, b) = "nan" /\ Len(s) = b -> [ok |-> TRUE, v |-> NaN]
          [] Tok(s, b) = "inf" /\ Len(s) = b -> [ok |-> TRUE, v |-> sgn(PInf)]
          [] e > b /\ e = Len(s) + 1 -> [ok |-> TRUE, v |-> sgn(F(DigitsVal(s, b, e)))]
          [] e > b /\ Tok(s, e) = "." /\ fe = Len(s) + 1 /\ WholeFraction(s, e + 1, fe) ->
                [ok |-> TRUE, v |-> sgn(F(DigitsVal(s, b, e)))]
          [] OTHER -> bad

---------------------------------------------------------------------------
\* json.dump

\* The keys add_transaction gives a record, in the order it inserts them.
KeyOrder == <<"id", "date", "description", "amount", "type">>

Quoted(str) == <<"\"", str, "\"">>

\* One value of a record: an int under "id", a float under "amount", a str elsewhere.
DumpField(key, val) ==
    CASE key = "id" -> IntRepr(val)
      [] key = "amount" -> FloatRepr(val)
      [] OTHER -> Quoted(val)

RECURSIVE DumpMembers(_, _, _)
DumpMembers(d, i, first) ==
    IF i > Len(KeyOrder) THEN <<>>
    ELSE IF KeyOrder[i] \in DOMAIN d
         THEN (IF first THEN <<>> ELSE <<",">>)
              \o Quoted(KeyOrder[i]) \o <<":">> \o DumpField(KeyOrder[i], d[KeyOrder[i]])
              \o DumpMembers(d, i + 1, FALSE)
         ELSE DumpMembers(d, i + 1, first)

DumpDict(d) == <<"{">> \o DumpMembers(d, 1, TRUE) \o <<"}">>

RECURSIVE DumpElements(_, _)
DumpElements(l, i) ==
    IF i > Len(l) THEN <<>>
    ELSE (IF i = 1 THEN <<>> ELSE <<",">>) \o DumpDict(l[i]) \o DumpElements(l, i + 1)

DumpList(l) == <<"[">> \o DumpElements(l, 1) \o <<"]">>

\* json.dump(self.transactions, f, indent=2): the text written.
JsonDump(t) ==
    CASE t.type = "list" -> DumpList(t.v)
      [] t.type = "dict" -> DumpDict(t.v)
      [] OTHER -> Quoted(t.v)

---------------------------------------------------------------------------
\* json.load

ParseFail == [ok |-> FALSE, type |-> "", v |-> 0, pos |-> 0]

Parsed(type, v, pos) == [ok |-> TRUE, type |-> type, v |-> v, pos |-> pos]

ParseString(s, i) ==
    IF Tok(s, i) = "\"" /\ i + 2 <= Len(s) /\ s[i + 2] = "\""
    THEN Parsed("str", s[i + 1], i + 3)
    ELSE ParseFail

\* -? int [. digits]; a leading 0 ends the int part.
ParseNumber(s, i) ==
    LET neg == Tok(s, i) = "-"
        b == IF neg THEN i + 1 ELSE i
        e == IF Tok(s, b) = "0" THEN b + 1 ELSE DigitsEnd(s, b)
        fe == DigitsEnd(s, e + 1)
        n == DigitsVal(s, b, e)
    IN  CASE e = b -> ParseFail
          [] Tok(s, e) = "." /\ fe > e + 1 /\ WholeFraction(s, e + 1, fe) ->
                Parsed("float", F(IF neg THEN -n ELSE n), fe)
          [] Tok(s, e) = "." -> ParseFail
          [] OTHER -> Parsed("int", IF neg THEN -n ELSE n, e)

RECURSIVE ParseValue(_, _), ParseElements(_, _, _), ParseMembers(_, _, _)

\* The value that starts at place i of s: [ok, type, v, pos], pos the place after it.
ParseValue(s, i) ==
    LET c == Tok(s, i)
    IN  CASE c = "[" -> IF Tok(s, i + 1) = "]" THEN Parsed("list", <<>>, i + 2)
                        ELSE ParseElements(s, i + 1, <<>>)
          [] c = "{" -> IF Tok(s, i + 1) = "}" THEN Parsed("dict", <<>>, i + 2)
                        ELSE ParseMembers(s, i + 1, <<>>)
          [] c = "\"" -> ParseString(s, i)
          [] c = "NaN" -> Parsed("float", NaN, i + 1)
          [] c = "Infinity" -> Parsed("float", PInf, i + 1)
          [] c = "-Infinity" -> Parsed("float", NInf, i + 1)
          [] c = "null" -> Parsed("NoneType", 0, i + 1)
          [] c = "-" \/ IsDigit(c) -> ParseNumber(s, i)
          [] OTHER -> ParseFail

ParseElements(s, i, acc) ==
    LET r == ParseValue(s, i)
    IN  IF ~r.ok THEN ParseFail
        ELSE CASE Tok(s, r.pos) = "," -> ParseElements(s, r.pos + 1, Append(acc, r.v))
               [] Tok(s, r.pos) = "]" -> Parsed("list", Append(acc, r.v), r.pos + 1)
               [] OTHER -> ParseFail

ParseMembers(s, i, acc) ==
    LET k == ParseString(s, i)
        r == ParseValue(s, k.pos + 1)
        d == [x \in DOMAIN acc \cup {k.v} |-> IF x = k.v THEN r.v ELSE acc[x]]
    IN  IF ~k.ok \/ Tok(s, k.pos) # ":" THEN ParseFail
        ELSE IF ~r.ok THEN ParseFail
        ELSE CASE Tok(s, r.pos) = "," -> ParseMembers(s, r.pos + 1, d)
               [] Tok(s, r.pos) = "}" -> Parsed("dict", d, r.pos + 1)
               [] OTHER -> ParseFail

\* json.load(f): the whole text is one value; ok = FALSE is JSONDecodeError.
JsonLoad(s) ==
    LET r == ParseValue(s, 1)
    IN  IF r.ok /\ r.pos = Len(s) + 1 THEN r ELSE ParseFail

---------------------------------------------------------------------------
\* the ledger

EmptyList == [type |-> "list", v |-> <<>>]

\* The persisted store finances.json: whether it exists, and its text.
NoFile == [exists |-> FALSE, text |-> <<>>]

\* What the last operation printed and wrote: its message, the three totals of
\* a summary (none: <<>>) and the lines of an export file (none: <<>>).
Output(msg) == [msg |-> msg, totals |-> <<>>, csv |-> <<>>]

\* What the prompts of add_transaction and the clock supply.
Descriptions == {"Coffee"}
AmountTexts == {<<"2">>, <<"-", "1">>, <<"nan">>, <<"a", "b", "c">>}
TypeChoices == {"1", "2", "3"}
Dates == {"2024-01-01 09:00:00"}

\* How a write of a file ends: completed; open() refused, the file untouched;
\* an error after open() truncated the file and the first half of the text
\* was written.
IoOutcomes == {"ok", "denied", "torn"}

\* WriteFile with the file opened in mode 'a': the text is added to what the
\* file holds.
WriteFileAppendMode(f, text, io) ==
    CASE io = "ok" -> [exists |-> TRUE, text |-> f.text \o text]
      [] io = "denied" -> f
      [] OTHER -> [exists |-> TRUE, text |-> f.text \o SubSeq(text, 1, Len(text) \div 2)]

\* open(name, 'w') and the writes, on file f.
WriteFile(f, text, io) ==
    CASE io = "ok" -> [exists |-> TRUE, text |-> text]
      [] io = "denied" -> f
      [] OTHER -> [exists |-> TRUE, text |-> SubSeq(text, 1, Len(text) \div 2)]

\* save_data on ledger t: the store after it, and lastSave, what save_data
\* printed ("none" until this process calls it).
SaveData(t, io) ==
    /\ file' = WriteFile(file, JsonDump(t), io)
    /\ lastSave' = IF io = "ok" THEN "saved" ELSE "error"

\* load_data: the ledger and the message after it.  len() of the loaded value
\* is inside the try, so a value without a length is reported as an error too.
LoadData(f) ==
    LET r == JsonLoad(f.text)
    IN  IF ~f.exists THEN [t |-> EmptyList, msg |-> "No existing data file found"]
        ELSE IF r.ok /\ r.type \in {"list", "dict", "str"}
             THEN [t |-> [type |-> r.type, v |-> r.v], msg |-> "Loaded"]
             ELSE [t |-> EmptyList, msg |-> "Error loading data"]

\* not self.transactions
IsEmpty(t) ==
    CASE t.type = "list" -> t.v = <<>>
      [] t.type = "dict" -> DOMAIN t.v = {}
      [] OTHER -> t.v = ""

\* Whether t is a list of dicts that all have the keys.
HasKeys(t, keys) ==
    t.type = "list" /\ \A i \in 1..Len(t.v) : keys \subseteq DOMAIN t.v[i]

\* The conditions of the two sums of show_summary.
Positive(a) == FGt(a, F(0))
Negative(a) == FLt(a, F(0))

\* sum(t['amount'] for t in l[1..n] if t['amount'] > 0), or "< 0" when
\* positive is FALSE: from 0, left to right
RECURSIVE SumIf(_, _, _)
SumIf(l, n, positive) ==
    IF n = 0 THEN F(0)
    ELSE IF (IF positive THEN Positive(l[n].amount) ELSE Negative(l[n].amount))
         THEN FAdd(SumIf(l, n - 1, positive), l[n].amount)
         ELSE SumIf(l, n - 1, positive)

\* The three totals show_summary prints.
Summary(l) ==
    LET total_income == SumIf(l, Len(l), TRUE)
        total_expenses == FAbs(SumIf(l, Len(l), FALSE))
        balance == FSub(total_income, total_expenses)
    IN  <<total_income, total_expenses, balance>>

\* One line of the export file.
CsvRow(t) ==
    IntRepr(t.id) \o <<",", t.date, ",", t.description, ",">> \o FloatStr(t.amount)
        \o <<",", t.type>>

CsvHeader == <<"ID", ",", "Date", ",", "Description", ",", "Amount", ",", "Type">>

\* The lines export_to_csv writes before it ends: the header, then the rows up
\* to the first element that has not the five keys.
RECURSIVE CsvRows(_, _)
CsvRows(t, i) ==
    IF t.type # "list" \/ i > Len(t.v) THEN <<>>
    ELSE IF {"id", "date", "description", "amount", "type"} \subseteq DOMAIN t.v[i]
         THEN <<CsvRow(t.v[i])>> \o CsvRows(t, i + 1)
         ELSE <<>>

---------------------------------------------------------------------------
\* the program

AllKeys == {"id", "date", "description", "amount", "type"}

\* tracker = FinanceTracker(): a run of the program starts, also after an
\* earlier run ended or died; the store is what that run left.
Construct ==
    /\ pc \in {"start", "done", "crashed"}
    /\ pc' = "menu"
    /\ choice' = ""
    /\ transactions' = LoadData(file).t
    /\ out' = Output(LoadData(file).msg)
    /\ lastSave' = "none"
    /\ UNCHANGED file

\* An uncaught exception: the traceback, and the process ends.
Crash(c) ==
    /\ pc' = "crashed"
    /\ choice' = c
    /\ out' = Output("Traceback")
    /\ UNCHANGED <<transactions, file, lastSave>>

\* NewTransaction with the id taken as the length, without the + 1.
NewTransactionIdIsLength(l, description, amount, typeChoice, now) ==
    [id |-> Len(l),
     date |-> now,
     description |-> description,
     amount |-> IF typeChoice = "2" THEN FNeg(amount) ELSE amount,
     type |-> IF typeChoice = "2" THEN "expense" ELSE "income"]

\* The dictionary add_transaction builds from the answers to its prompts, for
\* the list l: choice 2 negates the amount.
NewTransaction(l, description, amount, typeChoice, now) ==
    [id |-> Len(l) + 1,
     date |-> now,
     description |-> description,
     amount |-> IF typeChoice = "2" THEN FNeg(amount) ELSE amount,
     type |-> IF typeChoice = "2" THEN "expense" ELSE "income"]

\* Appended with the record put first: insert(0, transaction).
AppendedFirst(l, transaction) == <<transaction>> \o l

\* self.transactions.append(transaction)
Appended(l, transaction) == Append(l, transaction)

\* AddTransaction without the save_data call that ends it.
AddTransactionNoSave(description, amountText, typeChoice, now, io) ==
    /\ pc = "menu"
    /\ ParseFloat(amountText).ok
    /\ typeChoice \in {"1", "2"}
    /\ IF transactions.type # "list" THEN Crash("1")
       ELSE LET transaction ==
                    NewTransaction(transactions.v, description,
                                   ParseFloat(amountText).v, typeChoice, now)
                appended == [type |-> "list", v |-> Append(transactions.v, transaction)]
            IN  /\ Len(transactions.v) < MaxTx
                /\ pc' = "menu"
                /\ choice' = "1"
                /\ transactions' = appended
                /\ out' = Output("Transaction added successfully!")
                /\ UNCHANGED <<file, lastSave>>

\* Menu 1.  The amount prompt repeats until float() accepts the text, the type
\* prompt until the answer is 1 or 2.  Only a list has append: on anything
\* else the call raises AttributeError.
AddTransaction(description, amountText, typeChoice, now, io) ==
    /\ pc = "menu"
    /\ ParseFloat(amountText).ok
    /\ typeChoice \in {"1", "2"}
    /\ IF transactions.type # "list" THEN Crash("1")
       ELSE LET transaction ==
                    NewTransaction(transactions.v, description,
                                   ParseFloat(amountText).v, typeChoice, now)
                appended == [type |-> "list", v |-> Appended(transactions.v, transaction)]
            IN  /\ Len(transactions.v) < MaxTx
                /\ pc' = "menu"
                /\ choice' = "1"
                /\ transactions' = appended
                /\ out' = Output("Transaction added successfully!")
                /\ SaveData(appended, io)

\* Menu 2.
ShowTransactions ==
    /\ pc = "menu"
    /\ IF IsEmpty(transactions)
       THEN /\ out' = Output("No transactions found.")
            /\ pc' = "menu"
            /\ choice' = "2"
            /\ UNCHANGED <<transactions, file, lastSave>>
       ELSE IF HasKeys(transactions, {"id", "date", "description", "amount"})
       THEN /\ out' = Output("table")
            /\ pc' = "menu"
            /\ choice' = "2"
            /\ UNCHANGED <<transactions, file, lastSave>>
       ELSE Crash("2")

\* ShowSummary without the return on an empty ledger.
ShowSummaryNoEmptyCase ==
    /\ pc = "menu"
    /\ IF transactions.type = "list" /\ HasKeys(transactions, {"amount"})
       THEN /\ out' = [msg |-> "FINANCIAL SUMMARY", totals |-> Summary(transactions.v),
                       csv |-> <<>>]
            /\ pc' = "menu"
            /\ choice' = "3"
            /\ UNCHANGED <<transactions, file, lastSave>>
       ELSE Crash("3")

\* Menu 3.
ShowSummary ==
    /\ pc = "menu"
    /\ IF IsEmpty(transactions)
       THEN /\ out' = Output("No transactions to summarize.")
            /\ pc' = "menu"
            /\ choice' = "3"
            /\ UNCHANGED <<transactions, file, lastSave>>
       ELSE IF HasKeys(transactions, {"amount"})
       THEN /\ out' = [msg |-> "FINANCIAL SUMMARY", totals |-> Summary(transactions.v),
                       csv |-> <<>>]
            /\ pc' = "menu"
            /\ choice' = "3"
            /\ UNCHANGED <<transactions, file, lastSave>>
       ELSE Crash("3")

\* ExportToCsv with the lines written to DATA_FILE.
ExportToCsvOverStore(io) ==
    /\ pc = "menu"
    /\ pc' = "menu"
    /\ choice' = "4"
    /\ UNCHANGED <<transactions, lastSave>>
    /\ IF IsEmpty(transactions)
       THEN out' = Output("No transactions to export.") /\ UNCHANGED file
       ELSE LET lines == <<CsvHeader>> \o CsvRows(transactions, 1)
                whole == HasKeys(transactions, {"id", "date", "description", "amount", "type"})
                written == WriteFile(file, lines, io)
            IN  /\ file' = written
                /\ out' = [msg |-> IF io = "ok" /\ whole THEN "Data exported"
                                   ELSE "Export failed",
                           totals |-> <<>>,
                           csv |-> IF io = "denied" THEN <<>> ELSE written.text]

\* Menu 4.  The export file has a name of its own, finances_export_<time>.csv.
\* Every exception of the writing is caught: an I/O error, and the KeyError or
\* TypeError of an element that is no transaction.
ExportToCsv(io) ==
    /\ pc = "menu"
    /\ pc' = "menu"
    /\ choice' = "4"
    /\ UNCHANGED <<transactions, file, lastSave>>
    /\ IF IsEmpty(transactions) THEN out' = Output("No transactions to export.")
       ELSE LET lines == <<CsvHeader>> \o CsvRows(transactions, 1)
                whole == HasKeys(transactions, AllKeys)
                written == WriteFile(NoFile, lines, io)
            IN  out' = [msg |-> IF io = "ok" /\ whole THEN "Data exported"
                                ELSE "Export failed",
                        totals |-> <<>>,
                        csv |-> written.text]

\* Menu 5.
Save(io) ==
    /\ pc = "menu"
    /\ pc' = "menu"
    /\ choice' = "5"
    /\ out' = Output(IF io = "ok" THEN "Data saved successfully!" ELSE "Error saving data")
    /\ SaveData(transactions, io)
    /\ UNCHANGED transactions

\* Menu 6.
Exit(io) ==
    /\ pc = "menu"
    /\ pc' = "done"
    /\ choice' = "6"
    /\ out' = Output("Goodbye!")
    /\ SaveData(transactions, io)
    /\ UNCHANGED transactions

\* Any other answer to the menu.
InvalidChoice ==
    /\ pc = "menu"
    /\ pc' = "menu"
    /\ choice' = "7"
    /\ out' = Output("Invalid choice. Please try again.")
    /\ UNCHANGED <<transactions, file, lastSave>>

Blank ==
    /\ pc = "start"
    /\ choice = ""
    /\ transactions = EmptyList
    /\ out = Output("")
    /\ lastSave = "none"

\* The first run finds no store; every later run finds what the runs before it left.
Init == Blank /\ file = NoFile

Next ==
    \/ Construct
    \/ \E d \in Descriptions, a \in AmountTexts, c \in TypeChoices, n \in Dates,
          io \in IoOutcomes : AddTransaction(d, a, c, n, io)
    \/ ShowTransactions
    \/ ShowSummary
    \/ \E io \in IoOutcomes : ExportToCsv(io)
    \/ \E io \in IoOutcomes : Save(io)
    \/ \E io \in IoOutcomes : Exit(io)
    \/ InvalidChoice

Spec == Init /\ [][Next]_vars

\* Stores the program did not write: an empty file, a cut-off text, text that
\* is no JSON, JSON values that are no array, and arrays of objects that are no
\* transactions.
ForeignStores ==
    { <<>>,
      <<"[", "{">>,
      <<"a", "b", "c">>,
      <<"5">>,
      <<"null">>,
      <<"\"", "abc", "\"">>,
      <<"{", "\"", "id", "\"", ":", "1", "}">>,
      <<"[", "{", "\"", "id", "\"", ":", "1", "}", "]">>,
      <<"[", "{", "}", ",", "{", "}", "]">>,
      <<"[", "]">> }

InitForeign == Blank /\ file \in {[exists |-> TRUE, text |-> s] : s \in ForeignStores}

\* The program started on a store it did not write.
SpecCorrupt == InitForeign /\ [][Next]_vars

---------------------------------------------------------------------------
\* properties

\* The step is a completed menu operation c of a running process.
Did(c) == pc = "menu" /\ choice' = c

\* The list l' is l with one element added at its end.
ExtendsByOne(l, l2) == Len(l2) = Len(l) + 1 /\ SubSeq(l2, 1, Len(l)) = l

\* The store, read back with json.load, is the list l.
StoreHolds(f, l) ==
    /\ f.exists
    /\ JsonLoad(f.text).ok
    /\ JsonLoad(f.text).type = "list"
    /\ JsonLoad(f.text).v = l

\* C1: add_transaction on any ledger, with any accepted input, makes the list
\* one longer, puts the new record last with id = the length before + 1, and
\* leaves the records before it as they were, each in its place.
C1_AppendAtEnd ==
    [][Did("1") =>
          /\ pc' = "menu"
          /\ transactions.type = "list" /\ transactions'.type = "list"
          /\ ExtendsByOne(transactions.v, transactions'.v)
          /\ transactions'.v[Len(transactions'.v)].id = Len(transactions.v) + 1]_vars

C1_Witness ==
    /\ pc = "menu" /\ choice = "1"
    /\ Len(transactions.v) = 2
    /\ transactions.v[2].id = 2

\* C2: in every ledger, whatever amounts were typed, an expense has an amount
\* <= 0 and an income an amount >= 0.
C2_KindAgreesWithSign ==
    \A i \in 1..Len(transactions.v) :
        /\ transactions.v[i].type = "expense" => FLe(transactions.v[i].amount, F(0))
        /\ transactions.v[i].type = "income" => FGe(transactions.v[i].amount, F(0))

\* C3: when a process ends after a successful save_data, the next process's
\* load_data, on the store as that save left it, builds the same list: the
\* same records with the same fields in the same order.
C3_RoundTrip ==
    [][pc = "done" /\ lastSave = "saved" /\ pc' = "menu" =>
          /\ out'.msg = "Loaded"
          /\ transactions'.type = "list"
          /\ transactions'.v = transactions.v]_vars

C3_Witness ==
    /\ pc = "menu" /\ choice = "" /\ out.msg = "Loaded"
    /\ Len(transactions.v) = 2
    /\ \E i \in 1..2 : transactions.v[i].amount.k = "fin" /\ transactions.v[i].amount.v < 0

\* The sum of all the amounts of l[1..n], from 0, left to right.
RECURSIVE SumAll(_, _)
SumAll(l, n) == IF n = 0 THEN F(0) ELSE FAdd(SumAll(l, n - 1), l[n].amount)

\* C4: the totals show_summary prints for a ledger that is not empty: the
\* income is the sum of the amounts > 0, the expenses the absolute value of
\* the sum of the amounts < 0, both are >= 0, and the balance is their
\* difference and is the sum of all the amounts.
C4_SummaryTotals ==
    (pc = "menu" /\ choice = "3" /\ ~IsEmpty(transactions)) =>
        /\ Len(out.totals) = 3
        /\ FEq(out.totals[1], SumIf(transactions.v, Len(transactions.v), TRUE))
        /\ FEq(out.totals[2], FAbs(SumIf(transactions.v, Len(transactions.v), FALSE)))
        /\ FGe(out.totals[1], F(0)) /\ FGe(out.totals[2], F(0))
        /\ FEq(out.totals[3], FSub(out.totals[1], out.totals[2]))
        /\ FEq(out.totals[3], SumAll(transactions.v, Len(transactions.v)))

\* C5 as stated: show_summary on an empty ledger gives totals that are all zero.
C5_ZeroTotals ==
    (pc = "menu" /\ choice = "3" /\ IsEmpty(transactions)) =>
        out.totals = <<F(0), F(0), F(0)>>

\* C5, amended: on an empty ledger show_transactions and show_summary raise
\* nothing and print their notice of an empty ledger; show_summary computes
\* and prints no totals.
C5_EmptyLedgerNotices ==
    (choice \in {"2", "3"} /\ IsEmpty(transactions)) =>
        /\ pc = "menu"
        /\ out.totals = <<>>
        /\ out.msg = IF choice = "2" THEN "No transactions found."
                     ELSE "No transactions to summarize."

C5_Witness ==
    /\ pc = "menu" /\ choice = "3" /\ IsEmpty(transactions)
    /\ out.msg = "No transactions to summarize."

\* The text is a JSON array of objects that each have the five keys of a
\* transaction and no other.
IsLedgerText(s) ==
    /\ JsonLoad(s).ok
    /\ JsonLoad(s).type = "list"
    /\ \A i \in 1..Len(JsonLoad(s).v) : DOMAIN JsonLoad(s).v[i] = AllKeys

\* C6: when the store exists and its text is no array of transaction records,
\* load_data reports an error and leaves the ledger empty, the process goes
\* on, and the add_transaction that follows succeeds with id 1.
C6_CorruptStoreRecovers ==
    [][/\ (pc # "menu" /\ pc' = "menu" /\ file.exists /\ ~IsLedgerText(file.text)) =>
              /\ out'.msg = "Error loading data"
              /\ transactions' = EmptyList
       /\ (Did("1") /\ choice = "" /\ file.exists /\ ~IsLedgerText(file.text)) =>
              /\ pc' = "menu"
              /\ transactions'.type = "list"
              /\ Len(transactions'.v) = 1
              /\ transactions'.v[1].id = 1]_vars

\* C7: a save_data that fails changes nothing in memory and the process goes
\* on (after add_transaction the new record stays in the list); the first
\* save_data that succeeds after failed ones writes the whole list of that
\* moment, which still holds every record the list held before.
C7_FailedSaveKeepsMemory ==
    [][/\ (pc = "menu" /\ choice' \in {"5", "6"} /\ lastSave' = "error") =>
              /\ transactions' = transactions
              /\ pc' = IF choice' = "5" THEN "menu" ELSE "done"
       /\ (Did("1") /\ lastSave' = "error") =>
              /\ pc' = "menu"
              /\ ExtendsByOne(transactions.v, transactions'.v)
       /\ (pc = "menu" /\ lastSave = "error" /\ lastSave' = "saved") =>
              /\ StoreHolds(file', transactions'.v)
              /\ SubSeq(transactions'.v, 1, Len(transactions.v)) = transactions.v]_vars

C7_Witness ==
    /\ pc = "menu" /\ lastSave = "error"
    /\ Len(transactions.v) = 2
    /\ ~StoreHolds(file, transactions.v)

\* C8: in every state of a ledger whose store only this program wrote, the
\* ids are positive and grow strictly along the list (so no two are equal).
C8_IdsIncrease ==
    /\ transactions.type = "list"
    /\ \A i \in 1..Len(transactions.v) : transactions.v[i].id > 0
    /\ \A i, j \in 1..Len(transactions.v) :
           i < j => transactions.v[i].id < transactions.v[j].id

C8_Witness ==
    /\ pc = "done"
    /\ Len(transactions.v) = 2
    /\ transactions.v[1].id = 1 /\ transactions.v[2].id = 2

\* C9: add_transaction and exit have called save_data when they end, and
\* between menu operations, if the last save_data of the process succeeded,
\* the store's text is the text of the list in memory.
C9_SavedStoreIsCurrent ==
    /\ (pc \in {"menu", "done"} /\ choice \in {"1", "6"}) => lastSave # "none"
    /\ (pc \in {"menu", "done"} /\ lastSave = "saved") =>
           /\ file.exists
           /\ file.text = JsonDump(transactions)

C9_Witness ==
    /\ pc = "menu" /\ choice = "1" /\ lastSave = "saved"
    /\ Len(transactions.v) = 2
    /\ file.text = JsonDump(transactions)

\* C10: show_transactions, show_summary and export_to_csv change neither the
\* list in memory nor the store, whether the export's write succeeds or not;
\* in a running process only add_transaction changes the list.
C10_ReadsChangeNothing ==
    [][pc = "menu" =>
          /\ choice' \in {"2", "3", "4"} => transactions' = transactions /\ file' = file
          /\ transactions' # transactions => choice' = "1"]_vars

C10_Witness ==
    /\ pc = "menu" /\ choice = "4"
    /\ out.msg = "Export failed"
    /\ Len(out.csv) > 0
    /\ Len(transactions.v) = 2

====
